---- MODULE Spec2Model ----
(***************************************************************************)
(* The per-connection lifecycle engine of spiped (lib/proto/proto_conn.c). *)
(*                                                                         *)
(* One connection is modelled from proto_conn_create to proto_conn_drop.   *)
(* The event loop is single-threaded, so every callback of the connection  *)
(* runs to completion: one action of the model is one callback turn, and   *)
(* the statements of the turn are composed in program order over a "world" *)
(* record.  hist records, in program order, every call the connection      *)
(* makes into its collaborators (timers, networker, handshake, pipes,      *)
(* close, free, callback_dead), so that "how often", "in which order" and  *)
(* "from which function" are questions about hist.                         *)
(*                                                                         *)
(* The address helpers of libcperciva/util/sock_util.c are pure functions: *)
(* they are operators here, applied by the actions of EnsurePortSpec and   *)
(* SerializeSpec to inputs drawn from bounded sets.                        *)
(***************************************************************************)
EXTENDS Integers, Sequences, FiniteSets, TLC

VARIABLES
    C,      \* struct conn_state (its contents survive free() as a dangling image)
    alloc,  \* "none" | "live" | "freed": the allocation holding C
    reg,    \* operations registered with the event loop / collaborators
    hist,   \* program-order log of the calls made by and into the connection
    ret,    \* "none" before proto_conn_create, then "C" or "NULL"
    addr,       \* sock_addr_ensure_port: the string passed in
    bind_addr,  \* sock_addr_ensure_port: the string returned for addr
    bind_addr2, \* sock_addr_ensure_port: the string returned for bind_addr
    sa,         \* struct sock_addr passed to sock_addr_serialize
    buf,        \* the buffer handed to sock_addr_deserialize
    sa2         \* struct sock_addr returned by sock_addr_deserialize

connvars == <<C, alloc, reg, hist, ret>>

utilvars == <<addr, bind_addr, bind_addr2, sa, buf, sa2>>

vars == <<connvars, utilvars>>

----------------------------------------------------------------------------
(* Values *)

NULL == "NULL"

\* C->t = -1 until the dial succeeds
NoSocket == -1

\* the already-accepted socket handed to proto_conn_create
AcceptedSockets == {5}

\* what the networker may deliver to callback_connect_done
DialResults == {NoSocket, 0, 7}

\* PROTO_CONN_* reason codes
PROTO_CONN_CLOSED == "CLOSED"
PROTO_CONN_CONNECT_FAILED == "CONNECT_FAILED"
PROTO_CONN_HANDSHAKE_FAILED == "HANDSHAKE_FAILED"
PROTO_CONN_ERROR == "ERROR"
Reasons == {PROTO_CONN_CLOSED, PROTO_CONN_CONNECT_FAILED,
            PROTO_CONN_HANDSHAKE_FAILED, PROTO_CONN_ERROR}

\* names of the asynchronous operations; a non-NULL handle is the name of
\* the operation it was returned for
Timers == {"connect_timer", "handshake_timer"}
Pipes == {"pipe_f", "pipe_r"}

\* what the handshake may deliver: both key sets, or (NULL, NULL)
HandshakeResults == {<<"k_f", "k_r">>, <<NULL, NULL>>}

\* outcomes of the fallible calls of one turn (allocation / registration)
Env == [malloc_ok : BOOLEAN, connect_timer_ok : BOOLEAN, connect_ok : BOOLEAN,
        handshake_timer_ok : BOOLEAN, handshake_ok : BOOLEAN,
        pipe_f_ok : BOOLEAN, pipe_r_ok : BOOLEAN]

\* the upstream's callback_dead, told apart by the value it returns
DeadReturns == {0, -1}

\* struct conn_state
conn_state(dead, sas, decr, s) ==
    [callback_dead |-> dead, sas |-> sas, decr |-> decr, s |-> s, t |-> NoSocket,
     connect_cookie |-> NULL, connect_timeout_cookie |-> NULL,
     handshake_cookie |-> NULL, handshake_timeout_cookie |-> NULL,
     k_f |-> NULL, k_r |-> NULL, pipe_f |-> NULL, pipe_r |-> NULL,
     stat_f |-> 1, stat_r |-> 1]

----------------------------------------------------------------------------
(* The world a turn works on, and the log *)

World == [C |-> C, alloc |-> alloc, reg |-> reg, hist |-> hist, ret |-> ret,
          rc |-> 0]

Commit(w) ==
    /\ C' = w.C
    /\ alloc' = w.alloc
    /\ reg' = w.reg
    /\ hist' = w.hist
    /\ ret' = w.ret
    /\ UNCHANGED utilvars

\* sequencing: the statement Op applied to the value of the world so far
Bind(w, Op(_)) == CHOOSE r \in {Op(x) : x \in {w}} : TRUE

Ev(op, arg, fd, ok, by) == [op |-> op, arg |-> arg, fd |-> fd, ok |-> ok, by |-> by]

Emit(w, op, arg, fd, ok, by) == [w EXCEPT !.hist = Append(@, Ev(op, arg, fd, ok, by))]

----------------------------------------------------------------------------
(* Collaborators: event loop, networker, handshake, pipe, libc *)

\* register an operation; the handle is the operation's name, or NULL on failure
Register(w, o, fd, ok, by) ==
    IF ok THEN Emit([w EXCEPT !.reg = @ \cup {o}], "register", o, fd, TRUE, by)
    ELSE Emit(w, "register", o, fd, FALSE, by)

Handle(o, ok) == IF ok THEN o ELSE NULL

\* cancel through handle h; the event's ok says whether h was a handle of a
\* still-registered operation of the right kind
Cancel(w, h, kind, by) ==
    Emit([w EXCEPT !.reg = @ \ {h}], "cancel", h, NoSocket,
         h \in kind /\ h \in w.reg, by)

events_timer_register_double(w, timer, ok, by) == Register(w, timer, NoSocket, ok, by)

events_timer_cancel(w, h, by) == Cancel(w, h, Timers, by)

network_connect_bind(w, ok, by) == Register(w, "connect", NoSocket, ok, by)

network_connect_cancel(w, h, by) == Cancel(w, h, {"connect"}, by)

proto_handshake(w, s, ok, by) == Register(w, "handshake", s, ok, by)

proto_handshake_cancel(w, h, by) == Cancel(w, h, {"handshake"}, by)

proto_pipe(w, p, ok, by) == Register(w, p, NoSocket, ok, by)

proto_pipe_cancel(w, h, by) == Cancel(w, h, Pipes, by)

close(w, fd, by) == Emit(w, "close", "fd", fd, fd # NoSocket, by)

\* NULL-tolerant releases
sock_addr_freelist(w, sas, by) ==
    IF sas = NULL THEN w ELSE Emit(w, "free", sas, NoSocket, TRUE, by)

proto_crypt_free(w, k, by) ==
    IF k = NULL THEN w ELSE Emit(w, "free", k, NoSocket, TRUE, by)

free(w, by) == Emit([w EXCEPT !.alloc = "freed"], "free", "C", NoSocket, w.alloc = "live", by)

\* (C->callback_dead)(C->cookie, reason): the event's fd is the value returned
callback_dead(w, reason, by) ==
    [Emit(w, "callback_dead", reason, w.C.callback_dead, TRUE, by)
     EXCEPT !.rc = w.C.callback_dead]

----------------------------------------------------------------------------
(* proto_conn.c *)

\* Each function below is its statements in program order; a local operator
\* is one statement (or one labelled tail) applied to the world so far.

\* mutant: a failed proto_handshake goes to err0, leaving the timer registered
starthandshake_keeps_timer(w, s, decr, env) ==
    LET by == "starthandshake"
        timer(x) == [events_timer_register_double(x, "handshake_timer",
                                                  env.handshake_timer_ok, by)
                     EXCEPT !.C.handshake_timeout_cookie =
                                Handle("handshake_timer", env.handshake_timer_ok)]
        handshake(x) == [proto_handshake(x, s, env.handshake_ok, by)
                         EXCEPT !.C.handshake_cookie = Handle("handshake", env.handshake_ok)]
        err0(x) == [x EXCEPT !.rc = -1]
        cancel_timer(x) == [events_timer_cancel(x, x.C.handshake_timeout_cookie, by)
                            EXCEPT !.C.handshake_timeout_cookie = NULL]
        err1(x) == err0(cancel_timer(x))
        tail2(x) == IF x.C.handshake_cookie = NULL THEN err0(x) ELSE [x EXCEPT !.rc = 0]
        tail1(x) == IF x.C.handshake_timeout_cookie = NULL THEN err0(x)
                    ELSE Bind(Bind(x, handshake), tail2)
    IN  Bind(Bind(w, timer), tail1)

starthandshake(w, s, decr, env) ==
    LET by == "starthandshake"
        timer(x) == [events_timer_register_double(x, "handshake_timer",
                                                  env.handshake_timer_ok, by)
                     EXCEPT !.C.handshake_timeout_cookie =
                                Handle("handshake_timer", env.handshake_timer_ok)]
        handshake(x) == [proto_handshake(x, s, env.handshake_ok, by)
                         EXCEPT !.C.handshake_cookie = Handle("handshake", env.handshake_ok)]
        err0(x) == [x EXCEPT !.rc = -1]
        cancel_timer(x) == [events_timer_cancel(x, x.C.handshake_timeout_cookie, by)
                            EXCEPT !.C.handshake_timeout_cookie = NULL]
        err1(x) == err0(cancel_timer(x))
        tail2(x) == IF x.C.handshake_cookie = NULL THEN err1(x) ELSE [x EXCEPT !.rc = 0]
        tail1(x) == IF x.C.handshake_timeout_cookie = NULL THEN err0(x)
                    ELSE Bind(Bind(x, handshake), tail2)
    IN  Bind(Bind(w, timer), tail1)

\* mutant: a failed second proto_pipe is not reported to the caller
launchpipes_ignores_pipe_r(w, env) ==
    LET by == "launchpipes"
        pipe_f(x) == [proto_pipe(x, "pipe_f", env.pipe_f_ok, by)
                      EXCEPT !.C.pipe_f = Handle("pipe_f", env.pipe_f_ok)]
        pipe_r(x) == [proto_pipe(x, "pipe_r", env.pipe_r_ok, by)
                      EXCEPT !.C.pipe_r = Handle("pipe_r", env.pipe_r_ok)]
        err0(x) == [x EXCEPT !.rc = -1]
        tail2(x) == [x EXCEPT !.rc = 0]
        tail1(x) == IF x.C.pipe_f = NULL THEN err0(x) ELSE Bind(Bind(x, pipe_r), tail2)
    IN  Bind(Bind(w, pipe_f), tail1)

launchpipes(w, env) ==
    LET by == "launchpipes"
        pipe_f(x) == [proto_pipe(x, "pipe_f", env.pipe_f_ok, by)
                      EXCEPT !.C.pipe_f = Handle("pipe_f", env.pipe_f_ok)]
        pipe_r(x) == [proto_pipe(x, "pipe_r", env.pipe_r_ok, by)
                      EXCEPT !.C.pipe_r = Handle("pipe_r", env.pipe_r_ok)]
        err0(x) == [x EXCEPT !.rc = -1]
        tail2(x) == IF x.C.pipe_r = NULL THEN err0(x) ELSE [x EXCEPT !.rc = 0]
        tail1(x) == IF x.C.pipe_f = NULL THEN err0(x) ELSE Bind(Bind(x, pipe_r), tail2)
    IN  Bind(Bind(w, pipe_f), tail1)

\* proto_conn_drop, statement by statement
drop_close_s(w) == close(w, w.C.s, "proto_conn_drop")

\* mutant: the test of C->t against -1 is missing
drop_close_t_unguarded(w) == close(w, w.C.t, "proto_conn_drop")

drop_close_t(w) ==
    IF w.C.t # NoSocket THEN close(w, w.C.t, "proto_conn_drop") ELSE w

\* mutant: a dial in progress is not stopped
drop_stop_connect_missing(w) == w

drop_stop_connect(w) ==
    IF w.C.connect_cookie # NULL
    THEN network_connect_cancel(w, w.C.connect_cookie, "proto_conn_drop") ELSE w

drop_free_sas(w) == sock_addr_freelist(w, w.C.sas, "proto_conn_drop")

\* mutant: a handshake in progress is not stopped
drop_stop_handshake_missing(w) == w

drop_stop_handshake(w) ==
    IF w.C.handshake_cookie # NULL
    THEN proto_handshake_cancel(w, w.C.handshake_cookie, "proto_conn_drop") ELSE w

drop_kill_timeouts(w) ==
    LET connect_timeout(x) ==
            IF x.C.connect_timeout_cookie # NULL
            THEN events_timer_cancel(x, x.C.connect_timeout_cookie, "proto_conn_drop")
            ELSE x
        handshake_timeout(x) ==
            IF x.C.handshake_timeout_cookie # NULL
            THEN events_timer_cancel(x, x.C.handshake_timeout_cookie, "proto_conn_drop")
            ELSE x
    IN  Bind(Bind(w, connect_timeout), handshake_timeout)

\* mutant: k_f is freed twice and k_r never
drop_free_keys_k_f_twice(w) ==
    LET k_f(x) == proto_crypt_free(x, x.C.k_f, "proto_conn_drop")
    IN  Bind(Bind(w, k_f), k_f)

drop_free_keys(w) ==
    LET k_f(x) == proto_crypt_free(x, x.C.k_f, "proto_conn_drop")
        k_r(x) == proto_crypt_free(x, x.C.k_r, "proto_conn_drop")
    IN  Bind(Bind(w, k_f), k_r)

drop_stop_pipes(w) ==
    LET pipe_f(x) == IF x.C.pipe_f # NULL
                     THEN proto_pipe_cancel(x, x.C.pipe_f, "proto_conn_drop") ELSE x
        pipe_r(x) == IF x.C.pipe_r # NULL
                     THEN proto_pipe_cancel(x, x.C.pipe_r, "proto_conn_drop") ELSE x
    IN  Bind(Bind(w, pipe_f), pipe_r)

\* mutant: the upstream is not notified
drop_notify_missing(w, reason) == w

drop_notify(w, reason) == callback_dead(w, reason, "proto_conn_drop")

drop_free_C(w) == free(w, "proto_conn_drop")

\* return (rc)
drop_return(w) == Emit(w, "return", "proto_conn_drop", w.rc, TRUE, "proto_conn_drop")

\* mutant: the state is freed before the upstream is notified
proto_conn_drop_free_first(w, reason) ==
    LET w0 == Emit(w, "enter", "proto_conn_drop", NoSocket, TRUE, "proto_conn_drop")
        w1 == Bind(w0, drop_close_s)
        w2 == Bind(w1, drop_close_t)
        w3 == Bind(w2, drop_stop_connect)
        w4 == Bind(w3, drop_free_sas)
        w5 == Bind(w4, drop_stop_handshake)
        w6 == Bind(w5, drop_kill_timeouts)
        w7 == Bind(w6, drop_free_keys)
        w8 == Bind(w7, drop_stop_pipes)
        w9 == Bind(w8, drop_free_C)
        w10 == Bind(w9, LAMBDA x : drop_notify(x, reason))
    IN  Bind(w10, drop_return)

proto_conn_drop(w, reason) ==
    LET w0 == Emit(w, "enter", "proto_conn_drop", NoSocket, TRUE, "proto_conn_drop")
        w1 == Bind(w0, drop_close_s)
        w2 == Bind(w1, drop_close_t)
        w3 == Bind(w2, drop_stop_connect)
        w4 == Bind(w3, drop_free_sas)
        w5 == Bind(w4, drop_stop_handshake)
        w6 == Bind(w5, drop_kill_timeouts)
        w7 == Bind(w6, drop_free_keys)
        w8 == Bind(w7, drop_stop_pipes)
        w9 == Bind(w8, LAMBDA x : drop_notify(x, reason))
        w10 == Bind(w9, drop_free_C)
    IN  Bind(w10, drop_return)

\* mutant: the failure paths close s and release the address list
proto_conn_create_releases_on_failure(w, s, sas, decr, dead, env) ==
    LET by == "proto_conn_create"
        bake(x) == [x EXCEPT !.alloc = "live", !.C = conn_state(dead, sas, decr, s)]
        timer(x) == [events_timer_register_double(x, "connect_timer",
                                                  env.connect_timer_ok, by)
                     EXCEPT !.C.connect_timeout_cookie =
                                Handle("connect_timer", env.connect_timer_ok)]
        connect(x) == [network_connect_bind(x, env.connect_ok, by)
                       EXCEPT !.C.connect_cookie = Handle("connect", env.connect_ok)]
        err0(x) == [x EXCEPT !.ret = NULL]
        release(x) == sock_addr_freelist(close(x, x.C.s, by), x.C.sas, by)
        err1(x) == err0(free(Bind(x, release), by))
        cancel_timer(x) == events_timer_cancel(x, x.C.connect_timeout_cookie, by)
        err2(x) == err1(Bind(x, cancel_timer))
        cancel_connect(x) == network_connect_cancel(x, x.C.connect_cookie, by)
        err3(x) == err2(Bind(x, cancel_connect))
        success(x) == [x EXCEPT !.ret = "C"]
        tail4(x) == IF x.rc # 0 THEN err3(x) ELSE success(x)
        tail3(x) == IF x.C.decr # 0
                    THEN Bind(starthandshake(x, x.C.s, x.C.decr, env), tail4)
                    ELSE success(x)
        tail2(x) == IF x.C.connect_cookie = NULL THEN err2(x) ELSE tail3(x)
        tail1(x) == IF x.C.connect_timeout_cookie = NULL THEN err1(x)
                    ELSE Bind(Bind(x, connect), tail2)
    IN  IF ~env.malloc_ok THEN err0(w) ELSE Bind(Bind(Bind(w, bake), timer), tail1)

proto_conn_create(w, s, sas, decr, dead, env) ==
    LET by == "proto_conn_create"
        bake(x) == [x EXCEPT !.alloc = "live", !.C = conn_state(dead, sas, decr, s)]
        timer(x) == [events_timer_register_double(x, "connect_timer",
                                                  env.connect_timer_ok, by)
                     EXCEPT !.C.connect_timeout_cookie =
                                Handle("connect_timer", env.connect_timer_ok)]
        connect(x) == [network_connect_bind(x, env.connect_ok, by)
                       EXCEPT !.C.connect_cookie = Handle("connect", env.connect_ok)]
        err0(x) == [x EXCEPT !.ret = NULL]
        err1(x) == err0(free(x, by))
        cancel_timer(x) == events_timer_cancel(x, x.C.connect_timeout_cookie, by)
        err2(x) == err1(Bind(x, cancel_timer))
        cancel_connect(x) == network_connect_cancel(x, x.C.connect_cookie, by)
        err3(x) == err2(Bind(x, cancel_connect))
        success(x) == [x EXCEPT !.ret = "C"]
        tail4(x) == IF x.rc # 0 THEN err3(x) ELSE success(x)
        tail3(x) == IF x.C.decr # 0
                    THEN Bind(starthandshake(x, x.C.s, x.C.decr, env), tail4)
                    ELSE success(x)
        tail2(x) == IF x.C.connect_cookie = NULL THEN err2(x) ELSE tail3(x)
        tail1(x) == IF x.C.connect_timeout_cookie = NULL THEN err1(x)
                    ELSE Bind(Bind(x, connect), tail2)
    IN  IF ~env.malloc_ok THEN err0(w) ELSE Bind(Bind(Bind(w, bake), timer), tail1)

\* mutant: the encrypting side starts its handshake on s instead of t
callback_connect_done_handshake_on_s(w, t, env) ==
    LET by == "callback_connect_done"
        not_pending(x) == [x EXCEPT !.C.connect_cookie = NULL]
        free_sas(x) == [sock_addr_freelist(x, x.C.sas, by) EXCEPT !.C.sas = NULL]
        beat_clock(x) == [events_timer_cancel(x, x.C.connect_timeout_cookie, by)
                          EXCEPT !.C.connect_timeout_cookie = NULL]
        store_t(x) == [x EXCEPT !.C.t = t]
        err1(x) == proto_conn_drop(x, PROTO_CONN_ERROR)
        tail4(x) == IF x.rc # 0 THEN err1(x) ELSE x
        tail3(x) == IF (x.C.t # NoSocket) /\ (x.C.k_f # NULL) /\ (x.C.k_r # NULL)
                    THEN Bind(launchpipes(x, env), tail4) ELSE x
        tail2(x) == IF x.rc # 0 THEN err1(x) ELSE tail3(x)
        tail1(x) == IF x.C.t = NoSocket THEN proto_conn_drop(x, PROTO_CONN_CONNECT_FAILED)
                    ELSE IF x.C.decr = 0
                    THEN Bind(starthandshake(x, x.C.s, x.C.decr, env), tail2)
                    ELSE tail3(x)
    IN  Bind(Bind(Bind(Bind(Bind(w, not_pending), free_sas), beat_clock), store_t), tail1)

\* mutant: the dial timer is left running when the dial completes
callback_connect_done_keeps_timer(w, t, env) ==
    LET by == "callback_connect_done"
        not_pending(x) == [x EXCEPT !.C.connect_cookie = NULL]
        free_sas(x) == [sock_addr_freelist(x, x.C.sas, by) EXCEPT !.C.sas = NULL]
        store_t(x) == [x EXCEPT !.C.t = t]
        err1(x) == proto_conn_drop(x, PROTO_CONN_ERROR)
        tail4(x) == IF x.rc # 0 THEN err1(x) ELSE x
        tail3(x) == IF (x.C.t # NoSocket) /\ (x.C.k_f # NULL) /\ (x.C.k_r # NULL)
                    THEN Bind(launchpipes(x, env), tail4) ELSE x
        tail2(x) == IF x.rc # 0 THEN err1(x) ELSE tail3(x)
        tail1(x) == IF x.C.t = NoSocket THEN proto_conn_drop(x, PROTO_CONN_CONNECT_FAILED)
                    ELSE IF x.C.decr = 0
                    THEN Bind(starthandshake(x, x.C.t, x.C.decr, env), tail2)
                    ELSE tail3(x)
    IN  Bind(Bind(Bind(Bind(w, not_pending), free_sas), store_t), tail1)

callback_connect_done(w, t, env) ==
    LET by == "callback_connect_done"
        not_pending(x) == [x EXCEPT !.C.connect_cookie = NULL]
        free_sas(x) == [sock_addr_freelist(x, x.C.sas, by) EXCEPT !.C.sas = NULL]
        beat_clock(x) == [events_timer_cancel(x, x.C.connect_timeout_cookie, by)
                          EXCEPT !.C.connect_timeout_cookie = NULL]
        store_t(x) == [x EXCEPT !.C.t = t]
        err1(x) == proto_conn_drop(x, PROTO_CONN_ERROR)
        tail4(x) == IF x.rc # 0 THEN err1(x) ELSE x
        tail3(x) == IF (x.C.t # NoSocket) /\ (x.C.k_f # NULL) /\ (x.C.k_r # NULL)
                    THEN Bind(launchpipes(x, env), tail4) ELSE x
        tail2(x) == IF x.rc # 0 THEN err1(x) ELSE tail3(x)
        tail1(x) == IF x.C.t = NoSocket THEN proto_conn_drop(x, PROTO_CONN_CONNECT_FAILED)
                    ELSE IF x.C.decr = 0
                    THEN Bind(starthandshake(x, x.C.t, x.C.decr, env), tail2)
                    ELSE tail3(x)
    IN  Bind(Bind(Bind(Bind(Bind(w, not_pending), free_sas), beat_clock), store_t), tail1)

\* mutant: the dial timer fires without dropping the connection
callback_connect_timeout_nodrop(w) ==
    LET not_pending(x) == [x EXCEPT !.C.connect_timeout_cookie = NULL]
    IN  Bind(w, not_pending)

\* mutant: the dial timeout releases the address list itself
callback_connect_timeout_frees_sas(w) ==
    LET by == "callback_connect_timeout"
        not_pending(x) == [x EXCEPT !.C.connect_timeout_cookie = NULL]
        free_sas(x) == [sock_addr_freelist(x, x.C.sas, by) EXCEPT !.C.sas = NULL]
        drop(x) == proto_conn_drop(x, PROTO_CONN_ERROR)
    IN  Bind(Bind(Bind(w, not_pending), free_sas), drop)

\* mutant: the dial timer's handle is not cleared before the drop
callback_connect_timeout_keeps_handle(w) ==
    LET drop(x) == proto_conn_drop(x, PROTO_CONN_ERROR)
    IN  Bind(w, drop)

callback_connect_timeout(w) ==
    LET not_pending(x) == [x EXCEPT !.C.connect_timeout_cookie = NULL]
        drop(x) == proto_conn_drop(x, PROTO_CONN_ERROR)
    IN  Bind(Bind(w, not_pending), drop)

\* mutant: the pipes are launched without testing that the dial has completed
callback_handshake_done_ignores_dial(w, f, r, env) ==
    LET by == "callback_handshake_done"
        not_pending(x) == [x EXCEPT !.C.handshake_cookie = NULL]
        beat_clock(x) == [events_timer_cancel(x, x.C.handshake_timeout_cookie, by)
                          EXCEPT !.C.handshake_timeout_cookie = NULL]
        record_keys(x) == [x EXCEPT !.C.k_f = f, !.C.k_r = r]
        err1(x) == proto_conn_drop(x, PROTO_CONN_ERROR)
        tail3(x) == IF x.rc # 0 THEN err1(x) ELSE x
        tail2(x) == IF (x.C.k_f # NULL) /\ (x.C.k_r # NULL)
                    THEN Bind(launchpipes(x, env), tail3) ELSE x
        tail1(x) == IF (f = NULL) /\ (r = NULL)
                    THEN proto_conn_drop(x, PROTO_CONN_HANDSHAKE_FAILED)
                    ELSE Bind(Bind(x, record_keys), tail2)
    IN  Bind(Bind(Bind(w, not_pending), beat_clock), tail1)

\* mutant: the handshake handle is not cleared when the handshake completes
callback_handshake_done_keeps_handle(w, f, r, env) ==
    LET by == "callback_handshake_done"
        beat_clock(x) == [events_timer_cancel(x, x.C.handshake_timeout_cookie, by)
                          EXCEPT !.C.handshake_timeout_cookie = NULL]
        record_keys(x) == [x EXCEPT !.C.k_f = f, !.C.k_r = r]
        err1(x) == proto_conn_drop(x, PROTO_CONN_ERROR)
        tail3(x) == IF x.rc # 0 THEN err1(x) ELSE x
        tail2(x) == IF (x.C.t # NoSocket) /\ (x.C.k_f # NULL) /\ (x.C.k_r # NULL)
                    THEN Bind(launchpipes(x, env), tail3) ELSE x
        tail1(x) == IF (f = NULL) /\ (r = NULL)
                    THEN proto_conn_drop(x, PROTO_CONN_HANDSHAKE_FAILED)
                    ELSE Bind(Bind(x, record_keys), tail2)
    IN  Bind(Bind(w, beat_clock), tail1)

callback_handshake_done(w, f, r, env) ==
    LET by == "callback_handshake_done"
        not_pending(x) == [x EXCEPT !.C.handshake_cookie = NULL]
        beat_clock(x) == [events_timer_cancel(x, x.C.handshake_timeout_cookie, by)
                          EXCEPT !.C.handshake_timeout_cookie = NULL]
        record_keys(x) == [x EXCEPT !.C.k_f = f, !.C.k_r = r]
        err1(x) == proto_conn_drop(x, PROTO_CONN_ERROR)
        tail3(x) == IF x.rc # 0 THEN err1(x) ELSE x
        tail2(x) == IF (x.C.t # NoSocket) /\ (x.C.k_f # NULL) /\ (x.C.k_r # NULL)
                    THEN Bind(launchpipes(x, env), tail3) ELSE x
        tail1(x) == IF (f = NULL) /\ (r = NULL)
                    THEN proto_conn_drop(x, PROTO_CONN_HANDSHAKE_FAILED)
                    ELSE Bind(Bind(x, record_keys), tail2)
    IN  Bind(Bind(Bind(w, not_pending), beat_clock), tail1)

\* mutant: the handshake timeout is reported as a handshake failure
callback_handshake_timeout_wrong_reason(w) ==
    LET not_pending(x) == [x EXCEPT !.C.handshake_timeout_cookie = NULL]
        drop(x) == proto_conn_drop(x, PROTO_CONN_HANDSHAKE_FAILED)
    IN  Bind(Bind(w, not_pending), drop)

\* mutant: the handshake timer's handle is not cleared before the drop
callback_handshake_timeout_keeps_handle(w) ==
    LET drop(x) == proto_conn_drop(x, PROTO_CONN_ERROR)
    IN  Bind(w, drop)

callback_handshake_timeout(w) ==
    LET not_pending(x) == [x EXCEPT !.C.handshake_timeout_cookie = NULL]
        drop(x) == proto_conn_drop(x, PROTO_CONN_ERROR)
    IN  Bind(Bind(w, not_pending), drop)

\* mutant: the connection is dropped when either direction has shut down
callback_pipestatus_either_closed(w) ==
    LET body(x) ==
            IF (x.C.stat_f = -1) \/ (x.C.stat_r = -1)
            THEN proto_conn_drop(x, PROTO_CONN_ERROR)
            ELSE IF (x.C.stat_f = 0) \/ (x.C.stat_r = 0)
            THEN proto_conn_drop(x, PROTO_CONN_CLOSED)
            ELSE x
    IN  Bind(w, body)

callback_pipestatus(w) ==
    LET body(x) ==
            IF (x.C.stat_f = -1) \/ (x.C.stat_r = -1)
            THEN proto_conn_drop(x, PROTO_CONN_ERROR)
            ELSE IF (x.C.stat_f = 0) /\ (x.C.stat_r = 0)
            THEN proto_conn_drop(x, PROTO_CONN_CLOSED)
            ELSE x
    IN  Bind(w, body)

----------------------------------------------------------------------------
(* sock_util.c: strings *)

\* a C string is the sequence of its characters before the terminating NUL
Chars == {"/", ":", "[", "]", "a"}

\* longest address string passed to sock_addr_ensure_port
MaxStrLen == 4

Strings == UNION {[1..n -> Chars] : n \in 0..MaxStrLen}

\* a char * that is NULL, and one that no call has assigned yet
NULLSTR == <<"NULL">>
NoStr == <<"unassigned">>

\* strchr / strrchr: the position of the first / last occurrence, 0 for NULL
strchr(s, ch) ==
    IF \E i \in 1..Len(s) : s[i] = ch
    THEN CHOOSE i \in 1..Len(s) : s[i] = ch /\ \A j \in 1..(i - 1) : s[j] # ch
    ELSE 0

strrchr(s, ch) ==
    IF \E i \in 1..Len(s) : s[i] = ch
    THEN CHOOSE i \in 1..Len(s) : s[i] = ch /\ \A j \in (i + 1)..Len(s) : s[j] # ch
    ELSE 0

\* strdup and asprintf return NULL when the allocation fails
strdup(s, ok) == IF ok THEN s ELSE NULLSTR

sock_addr_ensure_port_brackets_only(str, ok) ==
    LET a == strchr(str, ":")
        b == strrchr(str, ":")
        c == strrchr(str, "]")
    IN  IF Len(str) > 0 /\ str[1] = "/" THEN strdup(str, ok)
        ELSE IF a = 0 THEN strdup(str \o <<":", "0">>, ok)
        ELSE IF a = b THEN strdup(str, ok)
        ELSE IF c = 0 THEN strdup(<<"[">> \o str \o <<"]">>, ok)
        ELSE IF c = Len(str) THEN strdup(str \o <<":", "0">>, ok)
        ELSE strdup(str, ok)

sock_addr_ensure_port(str, ok) ==
    LET a == strchr(str, ":")
        b == strrchr(str, ":")
        c == strrchr(str, "]")
    IN  \* unix domain socket
        IF Len(str) > 0 /\ str[1] = "/" THEN strdup(str, ok)
        \* no colon at all: "%s:0"
        ELSE IF a = 0 THEN strdup(str \o <<":", "0">>, ok)
        \* exactly one colon: IPv4 with a port
        ELSE IF a = b THEN strdup(str, ok)
        \* IPv6 without brackets: "[%s]:0"
        ELSE IF c = 0 THEN strdup(<<"[">> \o str \o <<"]">>
                                   \o <<":", "0">>, ok)
        \* IPv6 ending with the bracket (c[1] == '\0'): "%s:0"
        ELSE IF c = Len(str) THEN strdup(str \o <<":", "0">>, ok)
        \* IPv6 with a port after the bracket
        ELSE strdup(str, ok)

----------------------------------------------------------------------------
(* sock_util.c: addresses *)

\* sizeof(int) and sizeof(socklen_t), in bytes
SizeofInt == 4
SizeofSocklen == 4

\* the fixed part of a serialized address
HeaderLen == 2 * SizeofInt + SizeofSocklen

\* ai_family: AF_UNIX, AF_INET, AF_INET6 and a family no branch knows
Families == {1, 2, 10, 258}

\* ai_socktype: SOCK_STREAM, SOCK_DGRAM
SockTypes == {1, 2}

\* the bytes a sockaddr is made of, and the longest sockaddr
NameBytes == {0, 1, 255}
MaxNameLen == 2

Names == UNION {[1..n -> NameBytes] : n \in 0..MaxNameLen}

\* struct sock_addr; namelen is the length of name
Addresses ==
    {[ai_family |-> f, ai_socktype |-> t, namelen |-> Len(n), name |-> n] :
        f \in Families, t \in SockTypes, n \in Names}

\* a struct sock_addr * that is NULL, and one that no call has assigned yet
NULLSA == [null |-> TRUE]
NoSa == [null |-> FALSE]

\* the object representation of an integer: size bytes, least significant
\* first (two's complement)
IntBytes(n, size) == [i \in 1..size |-> (n \div (256 ^ (i - 1))) % 256]

\* the value of the bytes of an int (signed) and of a socklen_t (unsigned)
BytesInt(bs) ==
    LET top == bs[Len(bs)]
        RECURSIVE low(_)
        low(i) == IF i = Len(bs) THEN 0
                  ELSE bs[i] * (256 ^ (i - 1)) + low(i + 1)
    IN  low(1) + (256 ^ (Len(bs) - 1)) * (IF top >= 128 THEN top - 256 ELSE top)

BytesSocklen(bs) ==
    LET RECURSIVE val(_)
        val(i) == IF i > Len(bs) THEN 0
                  ELSE bs[i] * (256 ^ (i - 1)) + val(i + 1)
    IN  val(1)

\* memcmp over the first n bytes: 0 iff they are equal
memcmp(x, y, n) == IF \A i \in 1..n : x[i] = y[i] THEN 0 ELSE 1

sock_addr_cmp(sa1, sa2x) ==
    IF \/ sa1.ai_family # sa2x.ai_family
       \/ sa1.ai_socktype # sa2x.ai_socktype
       \/ sa1.namelen # sa2x.namelen
    THEN 1
    ELSE IF memcmp(sa1.name, sa2x.name, sa1.namelen) # 0 THEN 1
    ELSE 0

\* returns rc = -1 and no buffer when malloc fails
sock_addr_serialize(sax, malloc_ok) ==
    LET buflen == 2 * SizeofInt + SizeofSocklen + sax.namelen
    IN  IF ~malloc_ok THEN [rc |-> -1, buf |-> <<>>, buflen |-> 0]
        ELSE [rc |-> 0,
              buf |-> IntBytes(sax.ai_family, SizeofInt)
                      \o IntBytes(sax.ai_socktype, SizeofInt)
                      \o IntBytes(sax.namelen, SizeofSocklen)
                      \o SubSeq(sax.name, 1, sax.namelen),
              buflen |-> buflen]

sock_addr_deserialize_any_length(b, buflen, malloc_sa_ok, malloc_name_ok) ==
    IF buflen < 2 * SizeofInt + SizeofSocklen THEN NULLSA
    ELSE IF ~malloc_sa_ok THEN NULLSA
    ELSE
        LET family == BytesInt(SubSeq(b, 1, SizeofInt))
            socktype == BytesInt(SubSeq(b, SizeofInt + 1, 2 * SizeofInt))
            namelen == BytesSocklen(SubSeq(b, 2 * SizeofInt + 1, HeaderLen))
        IN  IF ~malloc_name_ok THEN NULLSA
            ELSE [ai_family |-> family, ai_socktype |-> socktype,
                  namelen |-> namelen,
                  name |-> [i \in 1..namelen |->
                               IF HeaderLen + i <= buflen
                               THEN b[HeaderLen + i] ELSE 0]]

sock_addr_deserialize(b, buflen, malloc_sa_ok, malloc_name_ok) ==
    \* sanity check
    IF buflen < 2 * SizeofInt + SizeofSocklen THEN NULLSA
    ELSE IF ~malloc_sa_ok THEN NULLSA
    ELSE
        LET family == BytesInt(SubSeq(b, 1, SizeofInt))
            socktype == BytesInt(SubSeq(b, SizeofInt + 1, 2 * SizeofInt))
            namelen == BytesSocklen(SubSeq(b, 2 * SizeofInt + 1, HeaderLen))
        IN  \* make sure the rest of the buffer is the right size
            IF buflen # 2 * SizeofInt + SizeofSocklen + namelen THEN NULLSA
            ELSE IF ~malloc_name_ok THEN NULLSA
            ELSE [ai_family |-> family, ai_socktype |-> socktype,
                  namelen |-> namelen,
                  name |-> SubSeq(b, HeaderLen + 1, HeaderLen + namelen)]

----------------------------------------------------------------------------
(* Turns of the event loop *)

\* the event loop enters a callback of operation o; a one-shot operation is
\* no longer registered once its callback runs
Deliver(w, o, cb, fd, ok) ==
    Emit([w EXCEPT !.reg = IF o \in Pipes THEN @ ELSE @ \ {o}], "call", cb, fd, ok, o)

\* A turn runs callback cb on the conn_state its cookie points to.  If that
\* state was freed, the turn is a use after free: it either faults (nothing
\* more happens in the turn) or runs on the dangling image of the state.
Turn(w, cb(_)) ==
    LET fault(x) == Emit(x, "use_after_free", "C", NoSocket, FALSE, "event_loop")
    IN  IF w.alloc = "live" THEN Commit(Bind(w, cb))
        ELSE Commit(Bind(w, fault)) \/ Commit(Bind(Bind(w, fault), cb))

Init ==
    /\ C = conn_state(0, NULL, 0, NoSocket)
    /\ alloc = "none"
    /\ reg = {}
    /\ hist = <<>>
    /\ ret = "none"
    /\ addr = <<>>
    /\ bind_addr = NoStr
    /\ bind_addr2 = NoStr
    /\ sa = NoSa
    /\ buf = <<>>
    /\ sa2 = NoSa

Create ==
    /\ ret = "none"
    /\ \E s \in AcceptedSockets, decr \in {0, 1}, dead \in DeadReturns, env \in Env :
          Commit(proto_conn_create(World, s, "sas", decr, dead, env))

ConnectDone ==
    /\ "connect" \in reg
    /\ \E t \in DialResults, env \in Env :
          LET w == Deliver(World, "connect", "callback_connect_done", t, t # NoSocket)
          IN  Turn(w, LAMBDA x : callback_connect_done(x, t, env))

ConnectTimeout ==
    /\ "connect_timer" \in reg
    /\ LET w == Deliver(World, "connect_timer", "callback_connect_timeout", NoSocket, TRUE)
       IN  Turn(w, callback_connect_timeout)

HandshakeDone ==
    /\ "handshake" \in reg
    /\ \E k \in HandshakeResults, env \in Env :
          LET w == Deliver(World, "handshake", "callback_handshake_done", NoSocket, k[1] # NULL)
          IN  Turn(w, LAMBDA x : callback_handshake_done(x, k[1], k[2], env))

HandshakeTimeout ==
    /\ "handshake_timer" \in reg
    /\ LET w == Deliver(World, "handshake_timer", "callback_handshake_timeout", NoSocket, TRUE)
       IN  Turn(w, callback_handshake_timeout)

\* a pipe changes the status of its direction from running to closed (0) or
\* failed (-1) through the pointer it was given, and calls callback_pipestatus
PipeStatus ==
    \E p \in Pipes, v \in {0, -1} :
       /\ p \in reg
       /\ (IF p = "pipe_f" THEN C.stat_f ELSE C.stat_r) = 1
       /\ LET w0 == Deliver(World, p, "callback_pipestatus", NoSocket, v = 0)
              w == IF p = "pipe_f" THEN [w0 EXCEPT !.C.stat_f = v]
                   ELSE [w0 EXCEPT !.C.stat_r = v]
          IN  Turn(w, callback_pipestatus)

\* the upstream drops a connection it holds the cookie of
UpstreamDrop ==
    /\ ret = "C"
    /\ alloc = "live"
    /\ \E reason \in Reasons :
          LET drop(x) == proto_conn_drop(x, reason)
          IN  Commit(Bind(Emit(World, "call", "proto_conn_drop", NoSocket, TRUE,
                               "upstream"), drop))

Next ==
    \/ Create
    \/ ConnectDone
    \/ ConnectTimeout
    \/ HandshakeDone
    \/ HandshakeTimeout
    \/ PipeStatus
    \/ UpstreamDrop

Spec == Init /\ [][Next]_vars

\* every registered timer that is not cancelled eventually fires
FairSpec == Spec /\ WF_vars(ConnectTimeout) /\ WF_vars(HandshakeTimeout)

----------------------------------------------------------------------------
(* Callers of sock_util.c *)

\* no connection exists while the address helpers are exercised
NoConnection ==
    /\ C = conn_state(0, NULL, 0, NoSocket)
    /\ alloc = "none"
    /\ reg = {}
    /\ hist = <<>>
    /\ ret = "none"

EnsurePortInit ==
    /\ NoConnection
    /\ addr \in Strings
    /\ bind_addr = NoStr
    /\ bind_addr2 = NoStr
    /\ sa = NoSa
    /\ buf = <<>>
    /\ sa2 = NoSa

\* bind_addr = sock_addr_ensure_port(addr)
EnsurePort ==
    /\ bind_addr = NoStr
    /\ \E ok \in BOOLEAN : bind_addr' = sock_addr_ensure_port(addr, ok)
    /\ UNCHANGED <<connvars, addr, bind_addr2, sa, buf, sa2>>

\* the result is passed through sock_addr_ensure_port once more
EnsurePortAgain ==
    /\ bind_addr \notin {NoStr, NULLSTR}
    /\ bind_addr2 = NoStr
    /\ \E ok \in BOOLEAN : bind_addr2' = sock_addr_ensure_port(bind_addr, ok)
    /\ UNCHANGED <<connvars, addr, bind_addr, sa, buf, sa2>>

EnsurePortNext == EnsurePort \/ EnsurePortAgain

EnsurePortSpec == EnsurePortInit /\ [][EnsurePortNext]_vars

SerializeInit ==
    /\ NoConnection
    /\ addr = <<>>
    /\ bind_addr = NoStr
    /\ bind_addr2 = NoStr
    /\ sa \in Addresses
    /\ buf = <<>>
    /\ sa2 = NoSa

\* sock_addr_serialize(sa, &buf, &buflen); buflen is Len(buf)
Serialize ==
    /\ buf = <<>>
    /\ sa2 = NoSa
    /\ \E ok \in BOOLEAN :
         LET r == sock_addr_serialize(sa, ok)
         IN  /\ r.rc = 0
             /\ r.buflen = Len(r.buf)
             /\ buf' = r.buf
    /\ UNCHANGED <<connvars, addr, bind_addr, bind_addr2, sa, sa2>>

\* what the serialized address of sa is when the allocation succeeds
Serialized == sock_addr_serialize(sa, TRUE).buf

\* the buffers a peer may send instead of the one that was serialized:
\* cut short, with bytes appended, or declaring another name length
Damaged(b) ==
    {SubSeq(b, 1, n) : n \in 1..(Len(b) - 1)}
    \cup {b \o <<x>> : x \in NameBytes}
    \cup {SubSeq(b, 1, 2 * SizeofInt) \o IntBytes(n, SizeofSocklen)
              \o SubSeq(b, HeaderLen + 1, Len(b)) : n \in 0..(MaxNameLen + 1)}

Damage ==
    /\ buf # <<>>
    /\ buf = Serialized
    /\ sa2 = NoSa
    /\ buf' \in Damaged(buf)
    /\ UNCHANGED <<connvars, addr, bind_addr, bind_addr2, sa, sa2>>

\* sa2 = sock_addr_deserialize(buf, buflen)
Deserialize ==
    /\ sa2 = NoSa
    /\ \E malloc_sa_ok \in BOOLEAN, malloc_name_ok \in BOOLEAN :
         sa2' = sock_addr_deserialize(buf, Len(buf), malloc_sa_ok,
                                      malloc_name_ok)
    /\ UNCHANGED <<connvars, addr, bind_addr, bind_addr2, sa, buf>>

SerializeNext == Serialize \/ Damage \/ Deserialize

SerializeSpec == SerializeInit /\ [][SerializeNext]_vars

----------------------------------------------------------------------------
(* Reading the log *)

Indices == DOMAIN hist

\* positions of the events with operation op and argument arg
At(op, arg) == {i \in Indices : hist[i].op = op /\ hist[i].arg = arg}

Calls == {i \in Indices : hist[i].op = "call"}

\* the callback turn an event belongs to: the last "call" at or before it
\* (0 for an event of proto_conn_create)
TurnOf(i) ==
    LET before == {j \in Calls : j <= i}
    IN  IF before = {} THEN 0 ELSE CHOOSE j \in before : \A k \in before : k <= j

LastCall == TurnOf(Len(hist))

\* the event loop (not the upstream) started turn j
CallbackTurn(j) == j # 0 /\ hist[j].by # "upstream"

Deads == {i \in Indices : hist[i].op = "callback_dead"}

Drops == At("enter", "proto_conn_drop")

Closes == {i \in Indices : hist[i].op = "close"}

UseAfterFree == At("use_after_free", "C")

Created == ret = "C"

Dropped == Drops # {}

\* the fd the dial delivered, if it delivered a valid one
DialedOk == {i \in At("call", "callback_connect_done") : hist[i].fd # NoSocket}

\* the handshake delivered both keys
KeysDelivered == {i \in At("call", "callback_handshake_done") : hist[i].ok}

----------------------------------------------------------------------------
(* Claims *)

\* C1: for a created connection, under every interleaving of dial completion,
\* handshake completion, timers, pipe status changes and setup failures,
\* callback_dead is invoked at most once and only from inside
\* proto_conn_drop, proto_conn_drop is entered at most once, and a connection
\* that has ended (was freed, or has nothing registered any more) has had its
\* callback_dead invoked exactly once.
C1_DeadExactlyOnce ==
    /\ Cardinality(Deads) <= 1
    /\ Cardinality(Drops) <= 1
    /\ \A i \in Deads : hist[i].by = "proto_conn_drop" /\ \E d \in Drops : d < i
    /\ \A d \in Drops : \E i \in Deads : d < i
    /\ (Created /\ (alloc = "freed" \/ reg = {})) => Cardinality(Deads) = 1

\* C1 witness: a callback turn (here the handshake timer firing while the
\* dial is still in flight) dropped the connection and callback_dead ran once.
C1_Witness ==
    /\ Created
    /\ Cardinality(Deads) = 1
    /\ CallbackTurn(LastCall)
    /\ hist[LastCall].arg = "callback_handshake_timeout"
    /\ At("cancel", "connect") # {}

\* C2: close(s) happens at most once and close(t) at most once, every close
\* is made by proto_conn_drop on a valid descriptor (never -1), close(t)
\* happens only for the descriptor a successful dial delivered, and once
\* the connection is dropped close(s) has happened exactly once and close(t)
\* exactly once if the dial ever delivered a valid descriptor.
C2_CloseExactlyOnce ==
    /\ \A i \in Closes :
          /\ hist[i].by = "proto_conn_drop"
          /\ hist[i].fd # NoSocket
          /\ hist[i].fd # C.s => \E j \in DialedOk : j < i /\ hist[j].fd = hist[i].fd
    /\ \A i, j \in Closes : hist[i].fd = hist[j].fd => i = j
    /\ Dropped =>
          /\ Cardinality({i \in Closes : hist[i].fd = C.s}) = 1
          /\ Cardinality({i \in Closes : hist[i].fd # C.s}) =
                (IF DialedOk # {} THEN 1 ELSE 0)

\* C2 witness: a connection whose dial delivered a descriptor was dropped and
\* both descriptors were closed.
C2_Witness ==
    /\ Dropped
    /\ DialedOk # {}
    /\ Cardinality(Closes) = 2

\* C3: once proto_conn_drop has returned, nothing of the connection (dial,
\* handshake, either timer, either pipe) is registered any more, whatever
\* was in flight when it was called, and no callback ever runs on the freed
\* state.
C3_NothingRegisteredAfterDrop ==
    /\ Dropped => reg = {}
    /\ UseAfterFree = {}

\* C3 witness: drop was called with the dial, the handshake and the handshake
\* timer all in flight and cancelled all three.
C3_Witness ==
    /\ Dropped
    /\ \E d \in Drops :
          \A o \in {"connect", "handshake", "handshake_timer"} :
             \E i \in At("cancel", o) : d < i /\ hist[i].by = "proto_conn_drop"

\* C4: if proto_conn_create fails at any setup step (allocation, dial timer,
\* network_connect_bind, or starthandshake when decr is set) it returns NULL,
\* callback_dead is not invoked and proto_conn_drop is not entered, every
\* registration create made has been cancelled exactly once while still
\* registered, and nothing remains registered.
C4_CreateFailureUnwinds ==
    ret = NULL =>
       /\ Deads = {}
       /\ Drops = {}
       /\ reg = {}
       /\ alloc # "live"
       /\ \A i \in Indices :
             (hist[i].op = "register" /\ hist[i].ok) =>
                /\ Cardinality(At("cancel", hist[i].arg)) = 1
                /\ \A j \in At("cancel", hist[i].arg) : i < j /\ hist[j].ok
       /\ \A j \in Indices :
             hist[j].op = "cancel" =>
                \E i \in Indices : i < j /\ hist[i].op = "register"
                                   /\ hist[i].arg = hist[j].arg /\ hist[i].ok

\* C4 witness: create failed in starthandshake after the dial timer, the dial
\* and the handshake timer had been registered, and unwound all three.
C4_Witness ==
    /\ ret = NULL
    /\ \A o \in {"connect_timer", "connect", "handshake_timer"} : At("cancel", o) # {}
    /\ \E i \in At("register", "handshake") : ~hist[i].ok

\* what made the turn that starts at call j terminal, read from the log
DialFailed(j) == hist[j].arg = "callback_connect_done" /\ hist[j].fd = NoSocket

HandshakeFailed(j) == hist[j].arg = "callback_handshake_done" /\ ~hist[j].ok

BothClosed(j) == hist[j].arg = "callback_pipestatus" /\ C.stat_f = 0 /\ C.stat_r = 0

PipeError(j) == hist[j].arg = "callback_pipestatus" /\ (C.stat_f = -1 \/ C.stat_r = -1)

TimedOut(j) == hist[j].arg \in {"callback_connect_timeout", "callback_handshake_timeout"}

\* a registration inside starthandshake or launchpipes failed during turn j
SetupFailed(j) ==
    \E i \in Indices :
       /\ i > j
       /\ hist[i].op = "register"
       /\ ~hist[i].ok
       /\ hist[i].by \in {"starthandshake", "launchpipes"}

\* C5: in a turn started by one of the connection's callbacks, the reason
\* given to callback_dead is CONNECT_FAILED exactly when the dial callback
\* delivered -1, HANDSHAKE_FAILED exactly when the handshake callback
\* delivered (NULL, NULL), CLOSED exactly when callback_pipestatus ran with
\* both statuses 0, and ERROR in every other dropping turn: a timer firing,
\* a pipe status of -1, a failure of starthandshake after the dial, a
\* failure of launchpipes.
C5_ReasonOfFirstTerminalEvent ==
    LET j == LastCall
        reasons == {hist[i].arg : i \in {k \in Deads : k > j}}
    IN  (UseAfterFree = {} /\ CallbackTurn(j)) =>
           /\ DialFailed(j) <=> reasons = {PROTO_CONN_CONNECT_FAILED}
           /\ HandshakeFailed(j) <=> reasons = {PROTO_CONN_HANDSHAKE_FAILED}
           /\ BothClosed(j) <=> reasons = {PROTO_CONN_CLOSED}
           /\ (TimedOut(j) \/ PipeError(j) \/ SetupFailed(j))
                 <=> reasons = {PROTO_CONN_ERROR}

\* C5 witness: launchpipes failed on its second pipe in the turn of the
\* handshake completion, and the connection was dropped with ERROR.
C5_Witness ==
    /\ CallbackTurn(LastCall)
    /\ hist[LastCall].arg = "callback_handshake_done"
    /\ \E i \in At("register", "pipe_r") : ~hist[i].ok
    /\ \E i \in Deads : hist[i].arg = PROTO_CONN_ERROR

\* the events callback_pipestatus adds to the log when run in the current
\* world with the two statuses set to sf and sr
PipestatusEffect(sf, sr) ==
    LET w == [World EXCEPT !.C.stat_f = sf, !.C.stat_r = sr]
        r == callback_pipestatus(w)
    IN  [same |-> r = w,
         reasons |-> {r.hist[i].arg :
                         i \in {k \in DOMAIN r.hist :
                                   k > Len(hist) /\ r.hist[k].op = "callback_dead"}},
         drops |-> Cardinality({k \in DOMAIN r.hist :
                                   k > Len(hist) /\ r.hist[k].op = "enter"})]

PipesRunning == alloc = "live" /\ C.pipe_f # NULL /\ C.pipe_r # NULL

\* C6: with the pipes launched, for every pair (stat_f, stat_r) in
\* {-1,0,1} x {-1,0,1} callback_pipestatus drops once with ERROR if either
\* status is -1, else drops once with CLOSED if both are 0, else changes
\* nothing; and in the run of the connection a status callback after the
\* clean close of only one direction does not drop, while the one after the
\* clean close of the second direction drops with CLOSED exactly once.
C6_PipestatusPolicy ==
    /\ PipesRunning =>
          \A sf \in {-1, 0, 1}, sr \in {-1, 0, 1} :
             LET e == PipestatusEffect(sf, sr)
             IN  IF sf = -1 \/ sr = -1
                 THEN e.drops = 1 /\ e.reasons = {PROTO_CONN_ERROR}
                 ELSE IF sf = 0 /\ sr = 0
                 THEN e.drops = 1 /\ e.reasons = {PROTO_CONN_CLOSED}
                 ELSE e.same
    /\ LET j == LastCall
       IN  (UseAfterFree = {} /\ CallbackTurn(j) /\ hist[j].arg = "callback_pipestatus") =>
              /\ ({C.stat_f, C.stat_r} = {0, 1}) => (~Dropped /\ PipesRunning /\ Pipes \subseteq reg)
              /\ (C.stat_f = 0 /\ C.stat_r = 0) =>
                    /\ Cardinality(Drops) = 1
                    /\ {hist[i].arg : i \in Deads} = {PROTO_CONN_CLOSED}
                    /\ Cardinality(Deads) = 1

\* C6 witness: one direction closed cleanly without a drop, then the other
\* did, and the connection was dropped with CLOSED.
C6_Witness ==
    /\ Cardinality(At("call", "callback_pipestatus")) = 2
    /\ C.stat_f = 0 /\ C.stat_r = 0
    /\ \E i \in Deads : hist[i].arg = PROTO_CONN_CLOSED

Launched == \E i \in At("register", "pipe_r") : hist[i].ok

\* C7: assuming every registered timer that is not cancelled eventually
\* fires, a created connection eventually launches its pipes or is dropped:
\* as long as the dial (the handshake) is in flight its own timer is
\* registered, and the firing of that timer drops the connection.
C7_NeverStuckBeforePipes ==
    /\ []/\ "connect" \in reg => "connect_timer" \in reg
         /\ "handshake" \in reg => "handshake_timer" \in reg
         /\ (UseAfterFree = {} /\ LastCall # 0 /\ TimedOut(LastCall)) => Dropped
    /\ Created ~> (Launched \/ Dropped)

\* C7 witness: the handshake had completed, the dial never did, and the dial
\* timer fired and dropped the connection.
C7_Witness ==
    /\ KeysDelivered # {}
    /\ At("call", "callback_connect_done") = {}
    /\ LastCall # 0
    /\ hist[LastCall].arg = "callback_connect_timeout"
    /\ Dropped

HandshakeStarts == At("register", "handshake")

\* C8: proto_handshake is called at most once per connection.  When decr is
\* non-zero the call is made inside proto_conn_create on s, so that when
\* create returns the handshake and the dial are both in flight; when decr
\* is zero the call is made only in the turn of a dial completion that
\* delivered a valid descriptor, on that descriptor.
C8_HandshakeOnCiphertextSocket ==
    /\ Cardinality(HandshakeStarts) <= 1
    /\ \A i \in HandshakeStarts :
          IF C.decr # 0
          THEN TurnOf(i) = 0 /\ hist[i].fd = C.s
          ELSE LET j == TurnOf(i)
               IN  /\ j # 0
                   /\ hist[j].arg = "callback_connect_done"
                   /\ hist[j].fd # NoSocket
                   /\ hist[i].fd = hist[j].fd
    /\ (Created /\ C.decr # 0) => \E i \in HandshakeStarts : hist[i].ok
    /\ (Created /\ C.decr # 0 /\ Calls = {}) => {"connect", "handshake"} \subseteq reg
    /\ (Created /\ C.decr = 0 /\ DialedOk # {} /\ UseAfterFree = {}) =>
          \/ HandshakeStarts # {}
          \/ \E i \in At("register", "handshake_timer") : ~hist[i].ok

\* C8 witness: an encrypting connection (decr = 0) started its handshake on
\* the dialed socket 7.
C8_Witness ==
    /\ Created
    /\ C.decr = 0
    /\ \E i \in HandshakeStarts : hist[i].ok /\ hist[i].fd = 7
    /\ "handshake" \in reg

PipeStarts == At("register", "pipe_f") \cup At("register", "pipe_r")

\* C9: proto_pipe is called only after the dial delivered a valid descriptor
\* and the handshake delivered both keys, in the turn of the later of the
\* two; and between turns no live connection has both and no running pipes.
C9_PipesWhenBothComplete ==
    /\ \A i \in PipeStarts :
          /\ C.t # NoSocket /\ C.k_f # NULL /\ C.k_r # NULL
          /\ \E d \in DialedOk, h \in KeysDelivered :
                TurnOf(i) = (IF d > h THEN d ELSE h)
    /\ (UseAfterFree = {} /\ DialedOk # {} /\ KeysDelivered # {}) =>
          At("register", "pipe_f") # {}
    /\ (alloc = "live" /\ C.t # NoSocket /\ C.k_f # NULL /\ C.k_r # NULL) =>
          (PipesRunning /\ Pipes \subseteq reg)

\* C9 witness: the handshake completed first, the dial second, and the pipes
\* were launched in the turn of the dial completion.
C9_Witness ==
    /\ PipesRunning
    /\ \E h \in KeysDelivered, d \in DialedOk :
          h < d /\ \A i \in PipeStarts : hist[i].ok /\ TurnOf(i) = d

Frees(x) == At("free", x)

\* C10: nothing is released twice, and once proto_conn_drop has returned the
\* target-address list and the connection state have each been freed exactly
\* once, each key set the handshake delivered has been freed exactly once
\* (and none if it delivered none), and each pipe that was created has been
\* cancelled exactly once while registered.
C10_ReleasedExactlyOnce ==
    /\ \A x \in {"sas", "k_f", "k_r", "C"} : Cardinality(Frees(x)) <= 1
    /\ \A p \in Pipes : Cardinality(At("cancel", p)) <= 1
    /\ \A i \in Frees("C") : hist[i].ok
    /\ Dropped =>
          /\ Cardinality(Frees("sas")) = 1
          /\ Cardinality(Frees("C")) = 1
          /\ alloc = "freed"
          /\ \A k \in {"k_f", "k_r"} :
                Cardinality(Frees(k)) = (IF KeysDelivered # {} THEN 1 ELSE 0)
          /\ \A p \in Pipes :
                /\ Cardinality(At("cancel", p)) =
                      (IF \E i \in At("register", p) : hist[i].ok THEN 1 ELSE 0)
                /\ \A j \in At("cancel", p) : hist[j].ok

\* C10 witness: launchpipes created pipe_f and failed on pipe_r; the drop
\* freed both key sets and cancelled the one pipe.
C10_Witness ==
    /\ Dropped
    /\ \E i \in At("register", "pipe_r") : ~hist[i].ok
    /\ At("cancel", "pipe_f") # {}
    /\ At("cancel", "pipe_r") = {}
    /\ Frees("k_f") # {} /\ Frees("k_r") # {}

\* the classification of sock_addr_ensure_port, in the order of its tests
Branch(str) ==
    IF Len(str) > 0 /\ str[1] = "/" THEN "unix"
    ELSE IF strchr(str, ":") = 0 THEN "no colon"
    ELSE IF strchr(str, ":") = strrchr(str, ":") THEN "one colon"
    ELSE IF strrchr(str, "]") = 0 THEN "no bracket"
    ELSE IF strrchr(str, "]") = Len(str) THEN "bracket last"
    ELSE "bracket not last"

\* C11: sock_addr_ensure_port is idempotent: whenever both calls return a
\* string, the string returned for sock_addr_ensure_port(addr) is returned
\* unchanged when it is passed through sock_addr_ensure_port again, whichever
\* branch addr falls into; and the first call changes addr exactly in the
\* three branches that append a port.
C11_EnsurePortIdempotent ==
    /\ bind_addr2 \notin {NoStr, NULLSTR} => bind_addr2 = bind_addr
    /\ bind_addr \notin {NoStr, NULLSTR} =>
         /\ Branch(bind_addr) \in {"unix", "one colon", "bracket not last"}
         /\ (bind_addr = addr) <=>
                Branch(addr) \in {"unix", "one colon", "bracket not last"}

\* an unbracketed IPv6 address was wrapped as "[::]:0" and came back unchanged
C11_Witness ==
    /\ addr = <<":", ":">>
    /\ bind_addr = <<"[", ":", ":", "]", ":", "0">>
    /\ bind_addr2 = bind_addr

\* C12: deserializing the buffer that sock_addr_serialize produced for sa
\* succeeds when its allocations do and yields an address that sock_addr_cmp
\* reports equal to sa (same family, socket type, name length and name
\* bytes); sock_addr_deserialize returns NULL for every buffer shorter than
\* the fixed header and for every buffer whose declared name length is not
\* the number of bytes after the header.
C12_SerializeRoundTrip ==
    /\ (sa2 \notin {NoSa, NULLSA} /\ buf = Serialized) =>
         /\ sock_addr_cmp(sa, sa2) = 0
         /\ sa2 = sa
    /\ buf = Serialized =>
         sock_addr_deserialize(buf, Len(buf), TRUE, TRUE) # NULLSA
    /\ (sa2 # NoSa /\ Len(buf) < HeaderLen) => sa2 = NULLSA
    /\ (/\ sa2 # NoSa
        /\ Len(buf) >= HeaderLen
        /\ BytesSocklen(SubSeq(buf, 2 * SizeofInt + 1, HeaderLen))
               # Len(buf) - HeaderLen) => sa2 = NULLSA

\* an address with a two-byte name came back equal from its own buffer
C12_Witness ==
    /\ sa \in Addresses
    /\ sa.namelen = MaxNameLen
    /\ sa.ai_family = 258
    /\ buf = Serialized
    /\ sa2 \notin {NoSa, NULLSA}
    /\ sock_addr_cmp(sa, sa2) = 0

\* the four pending-operation handles and the operation each one stands for
HandleOf == [connect_cookie |-> "connect",
             connect_timeout_cookie |-> "connect_timer",
             handshake_cookie |-> "handshake",
             handshake_timeout_cookie |-> "handshake_timer"]

\* by the log, operation o is in flight just before position i: it was
\* registered, and since then its callback has not been called (completed,
\* fired) and it has not been cancelled
InFlightAt(o, i) ==
    \E j \in 1..(i - 1) :
        /\ hist[j].op = "register" /\ hist[j].arg = o /\ hist[j].ok
        /\ \A k \in (j + 1)..(i - 1) :
              /\ ~(hist[k].op = "call" /\ hist[k].by = o)
              /\ ~(hist[k].op = "cancel" /\ hist[k].arg = o)

InFlight(o) == InFlightAt(o, Len(hist) + 1)

\* C13: between callback turns, each of the four pending-operation handles
\* of a live connection is either NULL or the handle of its own operation,
\* and it is non-NULL exactly when that operation is still registered, which
\* by the log means registered and neither completed, fired nor cancelled.
C13_HandleIffPending ==
    alloc = "live" =>
        \A f \in DOMAIN HandleOf :
            /\ C[f] \in {NULL, HandleOf[f]}
            /\ (C[f] # NULL) <=> (HandleOf[f] \in reg)
            /\ (HandleOf[f] \in reg) <=> InFlight(HandleOf[f])

\* the dial has completed and the handshake it started is pending
C13_Witness ==
    /\ alloc = "live"
    /\ At("call", "callback_connect_done") # {}
    /\ C.connect_cookie = NULL
    /\ C.connect_timeout_cookie = NULL
    /\ C.handshake_cookie = "handshake"
    /\ C.handshake_timeout_cookie = "handshake_timer"
    /\ reg = {"handshake", "handshake_timer"}

\* C14: between callback turns of a live connection, once the dialed
\* descriptor is stored (t >= 0) the dial handle and the dial-timer handle
\* are NULL, the dial has completed and its timer has been cancelled.
C14_DialedImpliesDialHandlesNull ==
    (alloc = "live" /\ C.t >= 0) =>
        /\ C.connect_cookie = NULL
        /\ C.connect_timeout_cookie = NULL
        /\ reg \cap {"connect", "connect_timer"} = {}
        /\ \E i \in DialedOk :
              /\ hist[i].fd = C.t
              /\ \E k \in At("cancel", "connect_timer") :
                    /\ k > i
                    /\ hist[k].ok
                    /\ hist[k].by = "callback_connect_done"

\* the dial delivered descriptor 7 and the connection lives on
C14_Witness ==
    /\ alloc = "live"
    /\ C.t = 7
    /\ C.connect_cookie = NULL
    /\ C.connect_timeout_cookie = NULL
    /\ At("cancel", "connect_timer") # {}

\* C15: launchpipes runs at most once per connection (each of the two pipes
\* is created at most once), between callback turns a live connection has
\* pipe_f non-NULL exactly when pipe_r is non-NULL, and a launch in which a
\* proto_pipe call fails is followed by proto_conn_drop in the same turn.
C15_PipesLaunchedOnceAsPair ==
    /\ Cardinality(At("register", "pipe_f")) <= 1
    /\ Cardinality(At("register", "pipe_r")) <= 1
    /\ \A i \in PipeStarts : hist[i].by = "launchpipes"
    /\ alloc = "live" => ((C.pipe_f # NULL) <=> (C.pipe_r # NULL))
    /\ \A i \in PipeStarts :
          ~hist[i].ok => \E d \in Drops : d > i /\ TurnOf(d) = TurnOf(i)

\* pipe_f was created, pipe_r failed, and the drop of the same turn
\* cancelled pipe_f
C15_Witness ==
    /\ \E i \in At("register", "pipe_f") : hist[i].ok
    /\ \E i \in At("register", "pipe_r") : ~hist[i].ok
    /\ \E k \in At("cancel", "pipe_f") : hist[k].ok /\ TurnOf(k) = LastCall
    /\ C.pipe_f = "pipe_f"
    /\ C.pipe_r = NULL
    /\ alloc = "freed"

\* cancellations of a dial, a handshake or a timer
Cancels == {i \in Indices : hist[i].op = "cancel" /\ hist[i].arg \notin Pipes}

\* C16: every cancellation of a dial, handshake or timer, whether made by
\* proto_conn_drop, by a completion callback (which does not test the handle
\* of the timer it cancels) or by a rollback path of proto_conn_create or
\* starthandshake, is given a non-NULL handle of an operation that is still
\* in flight: registered, not completed or fired, not cancelled before.
C16_CancelOnlyInFlight ==
    \A i \in Cancels :
        /\ hist[i].arg # NULL
        /\ hist[i].ok
        /\ InFlightAt(hist[i].arg, i)
        /\ hist[i].by \in {"proto_conn_drop", "callback_connect_done",
                           "callback_handshake_done", "proto_conn_create",
                           "starthandshake"}

\* the dial completed and cancelled its timer without testing the handle;
\* later the handshake timer fired and the drop cancelled nothing twice
C16_Witness ==
    /\ \E i \in At("cancel", "connect_timer") :
          hist[i].by = "callback_connect_done" /\ hist[i].ok
    /\ \E i \in At("cancel", "handshake") :
          hist[i].by = "proto_conn_drop" /\ hist[i].ok
    /\ LastCall # 0
    /\ hist[LastCall].arg = "callback_handshake_timeout"
    /\ Cardinality(Cancels) = 2

\* the field of conn_state that holds the handle of operation o
OwnHandle == [connect |-> "connect_cookie",
              connect_timer |-> "connect_timeout_cookie",
              handshake |-> "handshake_cookie",
              handshake_timer |-> "handshake_timeout_cookie",
              pipe_f |-> "pipe_f",
              pipe_r |-> "pipe_r"]

\* the cancellations made by the proto_conn_drop entered at position d
CancelsOfDrop(d) ==
    {k \in Indices : /\ k > d
                     /\ hist[k].op = "cancel"
                     /\ hist[k].by = "proto_conn_drop"
                     /\ TurnOf(k) = TurnOf(d)}

\* C17 as stated: every callback that calls proto_conn_drop, the pipe status
\* callback included, has set the handle of its own operation to NULL before
\* the call, and proto_conn_drop never cancels the operation whose callback
\* is running.
C17_DropNeverCancelsCaller ==
    \A d \in Drops :
        LET j == TurnOf(d)
        IN  CallbackTurn(j) =>
              /\ \A k \in CancelsOfDrop(d) : hist[k].arg # hist[j].by
              /\ j = LastCall => C[OwnHandle[hist[j].by]] = NULL

\* C17 (amended): the callbacks of the dial, the dial timer, the handshake and
\* the handshake timer have set their own handle to NULL before they call
\* proto_conn_drop, which therefore does not cancel their operation;
\* callback_pipestatus leaves pipe_f and pipe_r set, and the proto_conn_drop
\* it calls cancels the still-registered pipe whose status callback is
\* running, exactly once.
C17_OneShotCallbacksClearOwnHandle ==
    \A d \in Drops :
        LET j == TurnOf(d)
            o == hist[j].by
        IN  CallbackTurn(j) =>
              IF o \in Pipes
              THEN /\ hist[j].arg = "callback_pipestatus"
                   /\ Cardinality({k \in CancelsOfDrop(d) : hist[k].arg = o}) = 1
                   /\ \A k \in CancelsOfDrop(d) : hist[k].arg = o => hist[k].ok
                   /\ j = LastCall => C[OwnHandle[o]] = o
              ELSE /\ o \in {"connect", "connect_timer", "handshake",
                             "handshake_timer"}
                   /\ \A k \in CancelsOfDrop(d) : hist[k].arg # o
                   /\ j = LastCall => C[OwnHandle[o]] = NULL

\* the status callback of pipe_f dropped the connection, and the drop
\* cancelled pipe_f while that callback was running
C17_Witness ==
    /\ LastCall # 0
    /\ hist[LastCall].arg = "callback_pipestatus"
    /\ hist[LastCall].by = "pipe_f"
    /\ \E d \in Drops :
          /\ TurnOf(d) = LastCall
          /\ \E k \in CancelsOfDrop(d) : hist[k].arg = "pipe_f" /\ hist[k].ok
    /\ C.pipe_f = "pipe_f"

\* the events of the proto_conn_drop entered at position d
StepsOfDrop(d) ==
    {k \in Indices : /\ k > d
                     /\ hist[k].by = "proto_conn_drop"
                     /\ hist[k].op # "enter"
                     /\ TurnOf(k) = TurnOf(d)}

\* the place of an event in the statement order of proto_conn_drop
DropRank(e) ==
    CASE e.op = "close" /\ e.fd = C.s -> 1
      [] e.op = "close" /\ e.fd # C.s -> 2
      [] e.op = "cancel" /\ e.arg = "connect" -> 3
      [] e.op = "free" /\ e.arg = "sas" -> 4
      [] e.op = "cancel" /\ e.arg = "handshake" -> 5
      [] e.op = "cancel" /\ e.arg = "connect_timer" -> 6
      [] e.op = "cancel" /\ e.arg = "handshake_timer" -> 7
      [] e.op = "free" /\ e.arg = "k_f" -> 8
      [] e.op = "free" /\ e.arg = "k_r" -> 9
      [] e.op = "cancel" /\ e.arg = "pipe_f" -> 10
      [] e.op = "cancel" /\ e.arg = "pipe_r" -> 11
      [] e.op = "callback_dead" -> 12
      [] e.op = "free" /\ e.arg = "C" -> 13
      [] e.op = "return" -> 14
      [] OTHER -> 0

\* whether proto_conn_drop performs the step of that rank on the state C
DropStepDue(rank) ==
    CASE rank = 2 -> C.t # NoSocket
      [] rank = 3 -> C.connect_cookie # NULL
      [] rank = 4 -> C.sas # NULL
      [] rank = 5 -> C.handshake_cookie # NULL
      [] rank = 6 -> C.connect_timeout_cookie # NULL
      [] rank = 7 -> C.handshake_timeout_cookie # NULL
      [] rank = 8 -> C.k_f # NULL
      [] rank = 9 -> C.k_r # NULL
      [] rank = 10 -> C.pipe_f # NULL
      [] rank = 11 -> C.pipe_r # NULL
      [] OTHER -> TRUE

\* C18: proto_conn_drop performs its steps in one fixed order: close s; close
\* t; cancel the dial; release the address list; cancel the handshake; cancel
\* the dial timer, then the handshake timer; free k_f, then k_r; cancel
\* pipe_f, then pipe_r; invoke callback_dead; free the state; return what
\* callback_dead returned.  A step is skipped exactly when its resource is
\* absent; callback_dead runs after every close and cancel and before the
\* state is freed.
C18_DropOrder ==
    \A d \in Drops :
        /\ \A k \in StepsOfDrop(d) : DropRank(hist[k]) \in 1..14
        /\ \A k1 \in StepsOfDrop(d), k2 \in StepsOfDrop(d) :
              k1 < k2 => DropRank(hist[k1]) < DropRank(hist[k2])
        /\ TurnOf(d) = LastCall =>
              \A rank \in 1..14 :
                  DropStepDue(rank) <=>
                      \E k \in StepsOfDrop(d) : DropRank(hist[k]) = rank
        /\ \A k \in StepsOfDrop(d), x \in StepsOfDrop(d) :
              (hist[k].op = "return" /\ hist[x].op = "callback_dead") =>
                  /\ hist[k].fd = hist[x].fd
                  /\ hist[x].fd = C.callback_dead

\* a connection with running pipes was dropped: both sockets closed, both
\* key sets freed, both pipes cancelled, the upstream told, the state freed
\* and the upstream's -1 returned
C18_Witness ==
    \E d \in Drops :
        /\ TurnOf(d) = LastCall
        /\ {DropRank(hist[k]) : k \in StepsOfDrop(d)} =
               {1, 2, 8, 9, 10, 11, 12, 13, 14}
        /\ \E k \in StepsOfDrop(d) : hist[k].op = "return" /\ hist[k].fd = -1

\* C19: the target-address list is never released while the dial is in
\* flight: before every release the dial was started and has since completed
\* (its callback was called) or been cancelled.  The list is released by
\* callback_connect_done or by proto_conn_drop only; in the turn of the dial
\* timeout it is proto_conn_drop that releases it, after cancelling the dial.
C19_AddressListOutlivesDial ==
    \A i \in Frees("sas") :
        /\ ~InFlightAt("connect", i)
        /\ \E j \in 1..(i - 1) :
              /\ hist[j].op = "register" /\ hist[j].arg = "connect" /\ hist[j].ok
              /\ \E k \in (j + 1)..(i - 1) :
                    \/ hist[k].op = "call" /\ hist[k].by = "connect"
                    \/ hist[k].op = "cancel" /\ hist[k].arg = "connect" /\ hist[k].ok
        /\ hist[i].by \in {"callback_connect_done", "proto_conn_drop"}
        /\ (TurnOf(i) # 0 /\ hist[TurnOf(i)].arg = "callback_connect_timeout") =>
              /\ hist[i].by = "proto_conn_drop"
              /\ \E k \in At("cancel", "connect") :
                    /\ TurnOf(k) = TurnOf(i)
                    /\ k < i
                    /\ hist[k].by = "proto_conn_drop"

\* the dial timer fired: the drop cancelled the dial, then released the list
C19_Witness ==
    /\ LastCall # 0
    /\ hist[LastCall].arg = "callback_connect_timeout"
    /\ \E i \in Frees("sas"), k \in At("cancel", "connect") :
          /\ LastCall < k
          /\ k < i
          /\ hist[k].ok
    /\ C.sas = "sas"

\* the releases of a socket, a key set or the target-address list
Releases ==
    Closes \cup Frees("k_f") \cup Frees("k_r") \cup Frees("sas")

\* C20 as stated: the sockets, the key sets and the address list are released
\* by proto_conn_drop and by nothing else.
C20_ReleasedOnlyFromDrop ==
    \A i \in Releases : hist[i].by = "proto_conn_drop"

\* C20 (amended): the sockets s and t and the key sets k_f and k_r are
\* released by proto_conn_drop and by nothing else; the address list is
\* released by callback_connect_done in the turn in which the dial completes
\* (whatever it delivered) and otherwise by proto_conn_drop.
C20_ReleasedFromDropOrDialCompletion ==
    /\ \A i \in Closes \cup Frees("k_f") \cup Frees("k_r") :
          hist[i].by = "proto_conn_drop"
    /\ \A i \in Frees("sas") :
          \/ hist[i].by = "proto_conn_drop"
          \/ /\ hist[i].by = "callback_connect_done"
             /\ TurnOf(i) # 0
             /\ hist[TurnOf(i)].arg = "callback_connect_done"
    /\ \A j \in At("call", "callback_connect_done") :
          \E i \in Frees("sas") :
              TurnOf(i) = j /\ hist[i].by = "callback_connect_done"

\* the dial completion released the address list; a later drop closed both
\* sockets and freed both key sets
C20_Witness ==
    /\ \E i \in Frees("sas") : hist[i].by = "callback_connect_done"
    /\ Cardinality(Closes) = 2
    /\ Frees("k_f") # {}
    /\ Frees("k_r") # {}
    /\ \A i \in Closes \cup Frees("k_f") \cup Frees("k_r") :
          hist[i].by = "proto_conn_drop" /\ TurnOf(i) = LastCall

\* the failure path proto_conn_create left by, read from what it logged:
\* err0 (malloc), err1 (dial timer), err2 (dial), err3 (starthandshake)
CreateFailurePath ==
    IF At("free", "C") = {} THEN "err0"
    ELSE IF At("cancel", "connect") # {} THEN "err3"
    ELSE IF At("cancel", "connect_timer") # {} THEN "err2"
    ELSE "err1"

\* C21: when proto_conn_create returns NULL, on whichever of its failure
\* paths, it has not closed s (nor any other descriptor) and has not released
\* the target-address list: every call it made is a registration or a
\* cancellation of its own operations or the free of its own state, and no
\* callback ever runs for the connection that was not created.
C21_CreateFailureLeavesCallerResources ==
    ret = NULL =>
        /\ Closes = {}
        /\ Frees("sas") = {}
        /\ Frees("k_f") \cup Frees("k_r") = {}
        /\ Deads = {}
        /\ Calls = {}
        /\ \A i \in Indices :
              /\ hist[i].by \in {"proto_conn_create", "starthandshake"}
              /\ hist[i].op \in {"register", "cancel", "free"}
              /\ hist[i].op = "free" => hist[i].arg = "C"
        /\ alloc = "freed" => (C.s \in AcceptedSockets /\ C.sas = "sas")

\* the handshake could not be started: create unwound through err3 with s
\* and the address list still in the caller's hands
C21_Witness ==
    /\ ret = NULL
    /\ CreateFailurePath = "err3"
    /\ alloc = "freed"
    /\ C.decr # 0
    /\ C.s \in AcceptedSockets
    /\ C.sas = "sas"
    /\ Closes = {}
    /\ Frees("sas") = {}

====
